---- MODULE Spec2Model ----
(***************************************************************************)
(* Model of migrate.py, the WordPress-export to Hugo-content migration     *)
(* script: the driver main(), process_blog_post, process_static_page,      *)
(* extract_post_metadata, extract_post_content, create_hugo_content_file   *)
(* and clean_slug.                                                         *)
(*                                                                         *)
(* Strings are sequences of one-character strings; a fixed literal that is *)
(* never taken apart (".html", "-01T00:00:00+00:00") is one element.       *)
(* A path is the sequence of its '/'-separated segments, i.e. the value of *)
(* str(path).split('/'); an absolute path starts with the empty segment.   *)
(* A parsed document (the soup) is a sequence of nodes; an element node    *)
(* carries its tag, class list, datetime attribute and children.           *)
(* Class names are whole strings; what the code does with their           *)
(* characters (startswith, replace, title) is tabulated for the class      *)
(* names of the model's documents.                                         *)
(***************************************************************************)
EXTENDS Integers, Sequences, FiniteSets, TLC

VARIABLES
    pc,            \* position of main(): start, ScanPosts, ProcessEachPost,
                   \* ScanPages, ProcessEachPage, ReportSummary, done, exit
    argc,          \* len(sys.argv)
    wp_exists,     \* wp_dir.exists()
    hugo_exists,   \* hugo_dir.exists()
    wp_dir,        \* segments of the export root
    content_dir,   \* whether hugo_dir/content has been created by mkdir
    tree,          \* the index.html files under wp_dir: relative path -> soup
    todo,          \* files glob('**/index.html') has not yielded yet
    handed,        \* full paths handed to process_blog_post so far
    page_idx,      \* index into the page list of the page loop
    post_count,
    page_count,
    disk,          \* files written under hugo_dir/content: path -> file
    out,           \* console lines printed
    exit_code,     \* process exit status, -1 while running
    w_in,          \* harness: the path and soup handed to the extractor
    w_meta,        \* harness: metadata extracted, or handed to the writer
    w_file         \* harness: the file the writer produced

vars == <<pc, argc, wp_exists, hugo_exists, wp_dir, content_dir, tree, todo,
          handed, page_idx, post_count, page_count, disk, out,
          exit_code, w_in, w_in, w_meta, w_file>>

(***************************************************************************)
(* Bounds                                                                  *)
(***************************************************************************)
MaxFiles == 2      \* index.html files in the export tree
MaxTextLen == 2    \* length of titles, dates and slugs in the writer harness

(***************************************************************************)
(* Strings and paths                                                       *)
(***************************************************************************)
Digits == {"0", "1", "2", "3", "4", "5", "6", "7", "8", "9"}

RECURSIVE Flatten(_)
Flatten(ss) == IF ss = << >> THEN << >> ELSE Head(ss) \o Flatten(Tail(ss))

RECURSIVE LStrip(_)
LStrip(s) == IF s # << >> /\ Head(s) = " " THEN LStrip(Tail(s)) ELSE s

RECURSIVE RStrip(_)
RStrip(s) ==
    IF s # << >> /\ s[Len(s)] = " " THEN RStrip(SubSeq(s, 1, Len(s) - 1)) ELSE s

\* str.strip()
Strip(s) == LStrip(RStrip(s))

\* s.replace(' - Adam Wulf', ''), the dash being an en dash in the source;
\* the suffix is one element of the string
SiteSuffix == " - Adam Wulf"
RemoveSiteSuffix(s) == SelectSeq(s, LAMBDA c : c # SiteSuffix)

\* the group \d{4} of r'/(\d{4})/': a whole segment of exactly four digits
IsYearSeg(s) == Len(s) = 4 /\ \A i \in 1..4 : s[i] \in Digits

\* the group \d{2} of r'/(\d{4})/(\d{2})/'
IsMonthSeg(s) == Len(s) = 2 /\ \A i \in 1..2 : s[i] \in Digits

\* re.match(r'\d{4}', s): anchored at the start only
MatchYearPrefix(s) == Len(s) >= 4 /\ \A i \in 1..4 : s[i] \in Digits

NoMatch == [found |-> FALSE, g1 |-> << >>]

Min(S) == CHOOSE m \in S : \A n \in S : m <= n

\* re.search(r'/(\d{4})/', str(path)): the first segment of four digits that
\* has a '/' on both sides, so neither the first nor the last segment
YearSearch(parts) ==
    LET hits == {i \in 2..(Len(parts) - 1) : IsYearSeg(parts[i])}
    IN  IF hits = {} THEN NoMatch ELSE [found |-> TRUE, g1 |-> parts[Min(hits)]]

\* re.search(r'/(\d{4})/(\d{2})/', str(path)); g1 is group(1)
MonthSearch(parts) ==
    LET hits == {i \in 2..(Len(parts) - 2) :
                    IsYearSeg(parts[i]) /\ IsMonthSeg(parts[i + 1])}
    IN  IF hits = {} THEN NoMatch ELSE [found |-> TRUE, g1 |-> parts[Min(hits)]]

index_html == <<"i", "n", "d", "e", "x", ".", "h", "t", "m", "l">>
index == <<"i", "n", "d", "e", "x">>
about == <<"a", "b", "o", "u", "t">>
projects == <<"p", "r", "o", "j", "e", "c", "t", "s">>
open_source == <<"o", "p", "e", "n", "-", "s", "o", "u", "r", "c", "e">>
\* the page list in another order
PageDirs_Reordered == <<projects, about, open_source>>

PageDirs == <<about, projects, open_source>>

clean_slug(path_parts) ==
    IF Len(path_parts) > 1 THEN path_parts[Len(path_parts) - 1] ELSE index

(***************************************************************************)
(* Documents                                                               *)
(***************************************************************************)
TextNode(s) == [k |-> "text", tag |-> "", classes |-> << >>, dt |-> "",
                kids |-> << >>, s |-> s]
El(tag, classes, kids) == [k |-> "elem", tag |-> tag, classes |-> classes,
                           dt |-> "", kids |-> kids, s |-> << >>]
TimeEl(dt, s) == [k |-> "elem", tag |-> "time", classes |-> <<"entry-date">>,
                  dt |-> dt, kids |-> <<TextNode(s)>>, s |-> << >>]
NoElem == [k |-> "none", tag |-> "", classes |-> << >>, dt |-> "",
           kids |-> << >>, s |-> << >>]

InSeq(x, s) == \E i \in 1..Len(s) : s[i] = x

\* the elements of a node sequence in document order
RECURSIVE Descendants(_)
Descendants(nodes) ==
    Flatten([i \in 1..Len(nodes) |->
        IF nodes[i].k = "elem"
        THEN <<nodes[i]>> \o Descendants(nodes[i].kids)
        ELSE << >>])

\* soup.find(tag) / soup.find(tag, class_=cls): first match in document order
FindIn(nodes, tag, cls) ==
    LET hits == SelectSeq(Descendants(nodes),
                    LAMBDA e : e.tag = tag /\ (cls = "" \/ InSeq(cls, e.classes)))
    IN  IF hits = << >> THEN NoElem ELSE Head(hits)

find(soup, tag, cls) == FindIn(soup, tag, cls)

\* elem.get_text()
RECURSIVE get_text(_)
get_text(n) ==
    IF n.k = "text" THEN n.s
    ELSE Flatten([i \in 1..Len(n.kids) |-> get_text(n.kids[i])])

\* for elem in n.find_all(['script', 'noscript']): elem.decompose()
RECURSIVE Decompose(_)
Decompose(n) ==
    IF n.k # "elem" THEN n
    ELSE LET keep == SelectSeq(n.kids, LAMBDA c : c.tag \notin {"script", "noscript"})
         IN  [n EXCEPT !.kids = [i \in 1..Len(keep) |-> Decompose(keep[i])]]

HasEntry(nodes) == FindIn(nodes, "div", "entry-content") # NoElem

\* the soup after the decompose calls on its first div.entry-content
RECURSIVE DecomposeEntry(_)
DecomposeEntry(nodes) ==
    IF nodes = << >> THEN << >>
    ELSE IF ~HasEntry(<<Head(nodes)>>)
         THEN <<Head(nodes)>> \o DecomposeEntry(Tail(nodes))
    ELSE IF Head(nodes).tag = "div" /\ InSeq("entry-content", Head(nodes).classes)
         THEN <<Decompose(Head(nodes))>> \o Tail(nodes)
    ELSE <<[Head(nodes) EXCEPT !.kids = DecomposeEntry(Head(nodes).kids)]>>
         \o Tail(nodes)

\* Serialized markup is a sequence of tokens: tags and characters of text.
OpenTok(n) == [t |-> "open", tag |-> n.tag, classes |-> n.classes, c |-> ""]
CloseTok(n) == [t |-> "close", tag |-> n.tag, classes |-> << >>, c |-> ""]
CharTok(c) == [t |-> "char", tag |-> "", classes |-> << >>, c |-> c]

\* str(elem)
RECURSIVE str(_)
str(n) ==
    IF n.k = "text" THEN [i \in 1..Len(n.s) |-> CharTok(n.s[i])]
    ELSE <<OpenTok(n)>>
         \o Flatten([i \in 1..Len(n.kids) |-> str(n.kids[i])])
         \o <<CloseTok(n)>>

IsSpaceTok(t) == t.t = "char" /\ t.c = " "

RECURSIVE LStripTok(_)
LStripTok(h) == IF h # << >> /\ IsSpaceTok(Head(h)) THEN LStripTok(Tail(h)) ELSE h

RECURSIVE RStripTok(_)
RStripTok(h) ==
    IF h # << >> /\ IsSpaceTok(h[Len(h)])
    THEN RStripTok(SubSeq(h, 1, Len(h) - 1)) ELSE h

StripTok(h) == LStripTok(RStripTok(h))

\* re.sub(r'^<div[^>]*class="entry-content"[^>]*>', '', html): the opening
\* tag goes only when its class attribute reads exactly "entry-content"
StripOpenDiv(h) ==
    IF h # << >> /\ Head(h).t = "open" /\ Head(h).tag = "div"
       /\ Head(h).classes = <<"entry-content">>
    THEN Tail(h) ELSE h

\* re.sub(r'</div>$', '', html.rstrip())
StripCloseDiv(h) ==
    LET r == RStripTok(h)
    IN  IF r # << >> /\ r[Len(r)].t = "close" /\ r[Len(r)].tag = "div"
        THEN SubSeq(r, 1, Len(r) - 1) ELSE r

extract_post_content(soup) ==
    LET content_elem == find(soup, "div", "entry-content")
    IN  IF content_elem # NoElem
        THEN StripTok(StripCloseDiv(StripOpenDiv(str(Decompose(content_elem)))))
        ELSE << >>


(***************************************************************************)
(* Metadata                                                                *)
(***************************************************************************)
Untitled == <<"U", "n", "t", "i", "t", "l", "e", "d">>
DateTail == "-01T00:00:00+00:00"
DefaultDate == <<"2", "0", "0", "8", "-", "0", "1", DateTail>>

\* datetime.fromisoformat(date_str.replace('Z', '+00:00')) followed by
\* strftime('%Y-%m-%dT%H:%M:%S%z'), on the datetime attributes of Datetimes;
\* ok is FALSE where fromisoformat raises ValueError
Datetimes == {"2012-03-15T10:00:00Z", "2012-03-15T10:00:00", "March 15, 2012"}
ReformatIso(date_str) ==
    CASE date_str = "2012-03-15T10:00:00Z" ->
            [ok |-> TRUE, text |-> <<"2012-03-15T10:00:00+0000">>]
      [] date_str = "2012-03-15T10:00:00" ->
            [ok |-> TRUE, text |-> <<"2012-03-15T10:00:00">>]
      [] OTHER -> [ok |-> FALSE, text |-> << >>]

extract_title(soup) ==
    LET h1 == find(soup, "h1", "entry-title")
        title_elem == find(soup, "title", "")
    IN  IF h1 # NoElem THEN Strip(get_text(h1))
        ELSE IF title_elem # NoElem
             THEN Strip(RemoveSiteSuffix(get_text(title_elem)))
             ELSE Untitled

\* the date taken from the path when the document has no time.entry-date
PathDate(path_parts) ==
    LET year_pattern == YearSearch(path_parts)
        month_pattern == MonthSearch(path_parts)
    IN  IF year_pattern.found /\ month_pattern.found
        THEN year_pattern.g1 \o <<"-">> \o month_pattern.g1 \o <<DateTail>>
        ELSE DefaultDate

extract_date(soup, path_parts) ==
    LET date_elem == find(soup, "time", "entry-date")
        date_str == date_elem.dt
    IN  IF date_elem # NoElem
        THEN IF date_str # ""
             THEN IF ReformatIso(date_str).ok
                  THEN ReformatIso(date_str).text
                  ELSE Strip(get_text(date_elem))
             ELSE Strip(get_text(date_elem))
        ELSE PathDate(path_parts)

\* cls.startswith('category-') and cls != 'category-uncategorized'
IsCategoryClass(cls) == cls \in {"category-travel"}

\* cls.startswith('tag-')
IsTagClass(cls) == cls \in {"tag-europe"}

\* cls.replace('category-', '').replace('-', ' ').title(), and the same
\* with 'tag-'
ClassTitle(cls) ==
    CASE cls = "category-travel" -> "Travel"
      [] cls = "category-uncategorized" -> "Uncategorized"
      [] cls = "tag-europe" -> "Europe"
      [] OTHER -> cls

TitlesOf(classes) == [i \in 1..Len(classes) |-> ClassTitle(classes[i])]

\* an elif: a class is a tag only when it is not a category
extract_categories(soup) ==
    TitlesOf(SelectSeq(find(soup, "article", "").classes, IsCategoryClass))

extract_tags(soup) ==
    TitlesOf(SelectSeq(find(soup, "article", "").classes,
                       LAMBDA cls : ~IsCategoryClass(cls) /\ IsTagClass(cls)))

\* type is empty while the metadata dict has no 'type' key; so are categories
\* and tags, keys that are set only to non-empty lists
extract_post_metadata(soup, file_path) ==
    [title |-> extract_title(soup),
     date |-> extract_date(soup, file_path),
     slug |-> clean_slug(file_path),
     categories |-> extract_categories(soup),
     tags |-> extract_tags(soup),
     type |-> << >>]

(***************************************************************************)
(* Content writer                                                          *)
(***************************************************************************)
Quote == "\""
Backslash == "\\"

\* title.replace('"', '\\"')
EscapeQuotes(s) ==
    Flatten([i \in 1..Len(s) |->
        IF s[i] = Quote THEN <<Backslash, Quote>> ELSE <<s[i]>>])

Delimiter == <<"+++">>
TypeLine(t) == <<"type = ", Quote>> \o t \o <<Quote>>
post == <<"p", "o", "s", "t">>
page == <<"p", "a", "g", "e">>

\* the type written on the front matter's last line
WrittenType(metadata) == post

\* ', '.join(f'"{x}"' for x in names)
RECURSIVE JoinQuoted(_)
JoinQuoted(names) ==
    IF names = << >> THEN << >>
    ELSE <<Quote, Head(names), Quote>>
         \o (IF Tail(names) = << >> THEN << >> ELSE <<", ">> \o JoinQuoted(Tail(names)))

ListLine(key, names) ==
    IF names = << >> THEN << >> ELSE <<<<key>> \o JoinQuoted(names) \o <<"]">>>>

\* the lines joined by '\n', then '\n\n', then the content
create_hugo_content_file(metadata, content, output_path) ==
    [front |-> <<Delimiter,
                 <<"title = ", Quote>> \o EscapeQuotes(metadata.title) \o <<Quote>>,
                 <<"date = ", Quote>> \o metadata.date \o <<Quote>>,
                 <<"slug = ", Quote>> \o metadata.slug \o <<Quote>>>>
               \o ListLine("categories = [", metadata.categories)
               \o ListLine("tags = [", metadata.tags)
               \o <<TypeLine(WrittenType(metadata)), Delimiter>>,
     body |-> content]

(***************************************************************************)
(* Per-file processing                                                     *)
(***************************************************************************)
DotHtml == ".html"
posts == <<"posts">>
NoFile == [front |-> << >>, body |-> << >>]
Skipped(warn) == [ok |-> FALSE, warn |-> warn, path |-> << >>, file |-> NoFile]

\* output path relative to hugo_dir/content
PostOutputPath(html_file, slug) ==
    LET year_match == YearSearch(html_file)
        month_match == MonthSearch(html_file)
    IN  IF year_match.found /\ month_match.found
        THEN <<posts, year_match.g1, month_match.g1, slug \o <<DotHtml>>>>
        ELSE <<posts, slug \o <<DotHtml>>>>

LooksLikePost(soup) ==
    find(soup, "article", "") # NoElem /\ find(soup, "div", "entry-content") # NoElem

process_blog_post(html_file, soup) ==
    IF ~LooksLikePost(soup) THEN Skipped(FALSE)
    ELSE LET metadata == extract_post_metadata(soup, html_file)
             content == extract_post_content(soup)
             output_path == PostOutputPath(html_file, metadata.slug)
         IN  IF StripTok(content) = << >> THEN Skipped(TRUE)
             ELSE [ok |-> TRUE, warn |-> FALSE, path |-> output_path,
                   file |-> create_hugo_content_file(metadata, content, output_path)]

\* soup.find('div', class_='entry-content') or soup.find('main')
\*   or soup.find('div', class_='site-content')
PageContainer(soup) ==
    IF find(soup, "div", "entry-content") # NoElem
    THEN find(soup, "div", "entry-content")
    ELSE IF find(soup, "main", "") # NoElem THEN find(soup, "main", "")
    ELSE find(soup, "div", "site-content")

\* the body of a static page; the container is read again after
\* extract_post_content has removed the scripts of the first div.entry-content
PageContent(soup) ==
    LET extracted == extract_post_content(soup)
        content_elem == PageContainer(DecomposeEntry(soup))
        inner_entry == FindIn(content_elem.kids, "div", "entry-content")
        inner_main == FindIn(content_elem.kids, "main", "")
        inner_content == IF inner_entry # NoElem THEN inner_entry ELSE inner_main
        content == IF extracted # << >> THEN extracted ELSE str(content_elem)
    IN  IF InSeq("site-content", content_elem.classes) /\ inner_content # NoElem
        THEN str(inner_content)
        ELSE content

process_static_page(html_file, soup) ==
    IF PageContainer(soup) = NoElem THEN Skipped(TRUE)
    ELSE LET metadata == extract_post_metadata(soup, html_file)
             content == PageContent(soup)
             page_name == IF Len(html_file) > 1
                          THEN html_file[Len(html_file) - 1] ELSE << >>
             output_path == <<page_name \o <<DotHtml>>>>
         IN  IF InSeq(page_name, PageDirs)
             THEN [ok |-> TRUE, warn |-> FALSE, path |-> output_path,
                   file |-> create_hugo_content_file(
                                [metadata EXCEPT !.type = page], content, output_path)]
             ELSE Skipped(FALSE)

(***************************************************************************)
(* Inputs: export roots, export trees and documents                        *)
(***************************************************************************)
export == <<"e", "x", "p", "o", "r", "t">>
y2010 == <<"2", "0", "1", "0">>
y2024 == <<"2", "0", "2", "4">>
m05 == <<"0", "5">>
m06 == <<"0", "6">>
my_post == <<"m", "y", "-", "p", "o", "s", "t">>
pagination == <<"p", "a", "g", "e">>
two == <<"2">>

\* 'export', '.', and '/2024/export'
Roots == {<<export>>, << >>, <<<< >>, y2024, export>>}

\* index.html files relative to the export root
Pool == {<<y2010, m05, my_post, index_html>>,
         <<y2010, m06, my_post, index_html>>,
         <<y2010, pagination, two, index_html>>,
         <<pagination, two, index_html>>,
         <<index_html>>,
         <<about, index_html>>,
         <<projects, index_html>>}

Trees == {S \in SUBSET Pool : Cardinality(S) <= MaxFiles}

Txt == TextNode(<<"t">>)
Ws == TextNode(<<" ">>)
Script == El("script", << >>, <<TextNode(<<"j">>)>>)
NoScript == El("noscript", << >>, <<TextNode(<<"n">>)>>)
H1(s) == El("h1", <<"entry-title">>, <<TextNode(s)>>)
TitleEl(s) == El("title", << >>, <<TextNode(s)>>)
Article(kids) ==
    El("article",
       <<"post", "category-travel", "category-uncategorized", "tag-europe">>, kids)

EntryDivs ==
    {El("div", <<"entry-content">>, <<Ws, Txt, Ws>>),
     El("div", <<"entry-content">>, <<Ws>>),
     El("div", <<"entry-content">>, <<Script, Txt, NoScript>>),
     El("div", <<"entry-content">>, <<Script>>),
     El("div", <<"entry-content", "clearfix">>, <<Ws>>),
     El("div", <<"entry-content", "site-content">>,
        <<El("main", << >>, <<Script, Txt>>)>>)}

PlainEntry == El("div", <<"entry-content">>, <<Ws, Txt, Ws>>)

\* documents that differ in their article and entry-content structure
ContentDocs ==
    {<<Article(<<H1(<<"a">>), e>>)>> : e \in EntryDivs}
    \cup {<<H1(<<"a">>), e>> : e \in EntryDivs}
    \cup {<<Article(<<H1(<<"a">>)>>)>>}

\* documents that differ in their title and date elements
MetaDocs ==
    {<<TitleEl(<<"a", SiteSuffix>>), Article(<<PlainEntry>>)>>,
     <<Article(<<PlainEntry>>)>>,
     <<Article(<<H1(<<" ", "a", " ">>), PlainEntry>>)>>}
    \cup {<<Article(<<TimeEl(dt, <<" ", "b", " ">>), PlainEntry>>)>> :
             dt \in Datetimes \cup {""}}

\* documents without div.entry-content, for the static-page fallbacks
ContainerDocs ==
    {<<El("main", << >>, <<Script, Txt>>)>>,
     <<El("div", <<"site-content">>, <<NoScript, Txt>>)>>,
     <<H1(<<"a">>)>>}

AllDocs == ContentDocs \cup MetaDocs \cup ContainerDocs

\* the documents the export trees of the driver runs are made of: one for
\* each way a file is migrated or skipped
Docs ==
    {<<Article(<<PlainEntry>>)>>,
     <<Article(<<TimeEl("2012-03-15T10:00:00Z", <<"b">>), H1(<<"a">>),
                 El("div", <<"entry-content">>, <<Script, Txt, NoScript>>)>>)>>,
     <<Article(<<H1(<<"a">>), El("div", <<"entry-content">>, <<Ws>>)>>)>>,
     <<Article(<<H1(<<"a">>), El("div", <<"entry-content", "clearfix">>, <<Ws>>)>>)>>,
     <<Article(<<H1(<<"a">>),
                 El("div", <<"entry-content", "site-content">>,
                    <<El("main", << >>, <<Script, Txt>>)>>)>>)>>,
     <<H1(<<"a">>), PlainEntry>>,
     <<El("main", << >>, <<Script, Txt>>)>>,
     <<El("div", <<"site-content">>, <<NoScript, Txt>>)>>,
     <<H1(<<"a">>)>>}

Unread == [read |-> FALSE, soup |-> << >>]

\* the contents of file f: chosen when f is first opened, fixed afterwards
Contents(f) == IF tree[f].read THEN {tree[f].soup} ELSE Docs

\* the results of the two per-file procedures on every input of the model,
\* computed once
Files == {r \o f : r \in Roots, f \in Pool}
BlogPostResult == [h \in Files |-> [soup \in Docs |-> process_blog_post(h, soup)]]
StaticPageResult == [h \in Files |-> [soup \in Docs |-> process_static_page(h, soup)]]
MetadataResult == [h \in Files |-> [soup \in AllDocs |-> extract_post_metadata(soup, h)]]

(***************************************************************************)
(* The driver main()                                                       *)
(***************************************************************************)
Line(ev, src, dst, n) == [ev |-> ev, src |-> src, dst |-> dst, n |-> n]

\* the Hugo directory is not checked
ArgsOk_NoHugoCheck(n, wp, hugo) == n = 3 /\ wp

\* lines 217-230: neither sys.exit(1) is reached
ArgsOk(n, wp, hugo) == n = 3 /\ wp /\ hugo

\* lines 217-236
main_start ==
    /\ pc = "start"
    /\ IF ArgsOk(argc, wp_exists, hugo_exists)
       THEN /\ content_dir' = TRUE
            /\ pc' = "ScanPosts"
            /\ out' = Append(out, Line("Processing blog posts...", << >>, << >>, 0))
            /\ UNCHANGED exit_code
       ELSE /\ pc' = "exit"
            /\ exit_code' = 1
            /\ out' = Append(out, Line(IF argc # 3 THEN "Usage" ELSE "Error",
                                       << >>, << >>, 0))
            /\ UNCHANGED content_dir
    /\ UNCHANGED <<argc, wp_exists, hugo_exists, wp_dir, tree, todo, handed,
                   page_idx, post_count, page_count, disk, w_in, w_meta, w_file>>

\* lines 237-240: the counter is reset and the glob generator created
ScanPosts ==
    /\ pc = "ScanPosts"
    /\ \E S \in Trees :
          /\ tree' = [f \in S |-> Unread]
          /\ todo' = S
    /\ post_count' = 0
    /\ pc' = "ProcessEachPost"
    /\ UNCHANGED <<argc, wp_exists, hugo_exists, wp_dir, content_dir, handed,
                   page_idx, page_count, disk, out, exit_code, w_in, w_meta, w_file>>

\* lines 242-245
IsPostCandidate(path_parts) ==
    /\ Len(path_parts) >= 2
    /\ path_parts[Len(path_parts)] = index_html
    /\ Len(path_parts) >= 4
    /\ MatchYearPrefix(path_parts[Len(path_parts) - 3])

\* lines 240-247: one iteration of the post loop, glob yielding f
ProcessEachPost ==
    /\ pc = "ProcessEachPost"
    /\ \E f \in todo :
          LET html_file == wp_dir \o f
          IN  /\ todo' = todo \ {f}
              /\ IF IsPostCandidate(html_file)
                 THEN \E soup \in Contents(f) :
                        LET r == BlogPostResult[html_file][soup]
                        IN  /\ tree' = [tree EXCEPT ![f] = [read |-> TRUE, soup |-> soup]]
                            /\ handed' = handed \cup {html_file}
                            /\ post_count' = IF r.ok THEN post_count + 1 ELSE post_count
                            /\ disk' = IF r.ok
                                       THEN [q \in DOMAIN disk \cup {r.path} |->
                                               IF q = r.path THEN r.file ELSE disk[q]]
                                       ELSE disk
                            /\ out' = IF r.ok
                                      THEN Append(out, Line("Migrated", html_file, r.path, 0))
                                      ELSE IF r.warn
                                           THEN Append(out, Line("Warning", html_file, << >>, 0))
                                           ELSE out
                 ELSE UNCHANGED <<tree, handed, post_count, disk, out>>
    /\ UNCHANGED <<pc, argc, wp_exists, hugo_exists, wp_dir, content_dir,
                   page_idx, page_count, exit_code, w_in, w_meta, w_file>>

\* line 249: the glob generator is exhausted
FinishPosts ==
    /\ pc = "ProcessEachPost"
    /\ todo = {}
    /\ out' = Append(out, Line("Migrated blog posts", << >>, << >>, post_count))
    /\ pc' = "ScanPages"
    /\ UNCHANGED <<argc, wp_exists, hugo_exists, wp_dir, content_dir, tree, todo,
                   handed, page_idx, post_count, page_count, disk, exit_code,
                   w_in, w_meta, w_file>>

\* lines 251-254
ScanPages ==
    /\ pc = "ScanPages"
    /\ out' = Append(out, Line("Processing static pages...", << >>, << >>, 0))
    /\ page_count' = 0
    /\ page_idx' = 1
    /\ pc' = "ProcessEachPage"
    /\ UNCHANGED <<argc, wp_exists, hugo_exists, wp_dir, content_dir, tree, todo,
                   handed, post_count, disk, exit_code, w_in, w_meta, w_file>>

\* lines 254-258: one iteration of the page loop
ProcessEachPage ==
    /\ pc = "ProcessEachPage"
    /\ page_idx <= Len(PageDirs)
    /\ page_idx' = page_idx + 1
    /\ LET f == <<PageDirs[page_idx], index_html>>
           page_file == wp_dir \o f
       IN  IF f \in DOMAIN tree
           THEN \E soup \in Contents(f) :
                  LET r == StaticPageResult[page_file][soup]
                  IN  /\ tree' = [tree EXCEPT ![f] = [read |-> TRUE, soup |-> soup]]
                      /\ page_count' = IF r.ok THEN page_count + 1 ELSE page_count
                      /\ disk' = IF r.ok
                                 THEN [q \in DOMAIN disk \cup {r.path} |->
                                         IF q = r.path THEN r.file ELSE disk[q]]
                                 ELSE disk
                      /\ out' = IF r.ok
                                THEN Append(out, Line("Migrated page", page_file, r.path, 0))
                                ELSE IF r.warn
                                     THEN Append(out, Line("Warning page", page_file, << >>, 0))
                                     ELSE out
           ELSE UNCHANGED <<tree, page_count, disk, out>>
    /\ UNCHANGED <<pc, argc, wp_exists, hugo_exists, wp_dir, content_dir, todo,
                   handed, post_count, exit_code, w_in, w_meta, w_file>>

\* line 260: the page list is exhausted
FinishPages ==
    /\ pc = "ProcessEachPage"
    /\ page_idx > Len(PageDirs)
    /\ out' = Append(out, Line("Migrated static pages", << >>, << >>, page_count))
    /\ pc' = "ReportSummary"
    /\ UNCHANGED <<argc, wp_exists, hugo_exists, wp_dir, content_dir, tree, todo,
                   handed, page_idx, post_count, page_count, disk, exit_code,
                   w_in, w_meta, w_file>>

\* line 261, and the return from main()
ReportSummary ==
    /\ pc = "ReportSummary"
    /\ out' = Append(out, Line("Total migration complete", << >>, << >>,
                               post_count + page_count))
    /\ pc' = "done"
    /\ exit_code' = 0
    /\ UNCHANGED <<argc, wp_exists, hugo_exists, wp_dir, content_dir, tree, todo,
                   handed, page_idx, post_count, page_count, disk, w_in, w_meta, w_file>>

NoInput == [path |-> << >>, soup |-> << >>]
NoMeta == [title |-> << >>, date |-> << >>, slug |-> << >>,
           categories |-> << >>, tags |-> << >>, type |-> << >>]

Init ==
    /\ pc = "start"
    /\ argc \in {2, 3, 4}
    /\ wp_exists \in BOOLEAN
    /\ hugo_exists \in BOOLEAN
    /\ wp_dir \in Roots
    /\ content_dir = FALSE
    /\ tree = << >>
    /\ todo = {}
    /\ handed = {}
    /\ page_idx = 0
    /\ post_count = 0
    /\ page_count = 0
    /\ disk = << >>
    /\ out = << >>
    /\ exit_code = -1
    /\ w_in = NoInput
    /\ w_meta = NoMeta
    /\ w_file = NoFile

Next ==
    \/ main_start
    \/ ScanPosts
    \/ ProcessEachPost
    \/ FinishPosts
    \/ ScanPages
    \/ ProcessEachPage
    \/ FinishPages
    \/ ReportSummary

Spec == Init /\ [][Next]_vars

\* main() is sequential code: a step that can be taken is taken
FairSpec == Spec /\ WF_vars(Next)

(***************************************************************************)
(* The writer alone: create_hugo_content_file on arbitrary metadata        *)
(***************************************************************************)
Alphabet == {"a", Quote, Backslash}
Texts == UNION {[1..n -> Alphabet] : n \in 0..MaxTextLen}

WriterInit ==
    /\ pc = "writer"
    /\ w_meta \in [title : Texts, date : Texts, slug : Texts,
                   categories : {<< >>, <<"Travel">>}, tags : {<< >>},
                   type : {<< >>}]
    /\ w_file = NoFile
    /\ w_in = NoInput
    /\ argc = 3 /\ wp_exists = TRUE /\ hugo_exists = TRUE /\ wp_dir = << >>
    /\ content_dir = TRUE /\ tree = << >> /\ todo = {} /\ handed = {}
    /\ page_idx = 0 /\ post_count = 0 /\ page_count = 0 /\ disk = << >>
    /\ out = << >> /\ exit_code = -1

WriterCall ==
    /\ pc = "writer"
    /\ w_file' = create_hugo_content_file(w_meta, << >>, <<posts, w_meta.slug \o <<DotHtml>>>>)
    /\ pc' = "written"
    /\ UNCHANGED <<argc, wp_exists, hugo_exists, wp_dir, content_dir, tree, todo,
                   handed, page_idx, post_count, page_count, disk, out,
                   exit_code, w_in, w_meta>>

WriterSpec == WriterInit /\ [][WriterCall]_vars

(***************************************************************************)
(* The metadata extractor alone, on every file path and document           *)
(***************************************************************************)
ExtractInit ==
    /\ pc = "extract"
    /\ w_in \in [path : Files, soup : AllDocs]
    /\ w_meta = NoMeta
    /\ w_file = NoFile
    /\ argc = 3 /\ wp_exists = TRUE /\ hugo_exists = TRUE /\ wp_dir = << >>
    /\ content_dir = TRUE /\ tree = << >> /\ todo = {} /\ handed = {}
    /\ page_idx = 0 /\ post_count = 0 /\ page_count = 0 /\ disk = << >>
    /\ out = << >> /\ exit_code = -1

ExtractCall ==
    /\ pc = "extract"
    /\ w_meta' = MetadataResult[w_in.path][w_in.soup]
    /\ pc' = "extracted"
    /\ UNCHANGED <<argc, wp_exists, hugo_exists, wp_dir, content_dir, tree, todo,
                   handed, page_idx, post_count, page_count, disk, out,
                   exit_code, w_in, w_file>>

ExtractSpec == ExtractInit /\ [][ExtractCall]_vars

(***************************************************************************)
(* Properties                                                              *)
(***************************************************************************)
\* the file most recently migrated, read off the console line printed for it
Migrating == out # << >> /\ out[Len(out)].ev \in {"Migrated", "Migrated page"}
LastSrc == out[Len(out)].src
LastDst == out[Len(out)].dst
LastFile == disk[LastDst]
LastSoup == tree[SubSeq(LastSrc, Len(wp_dir) + 1, Len(LastSrc))].soup
Seg(path_parts, k) == path_parts[Len(path_parts) + 1 - k]   \* k-th from last

AllDigits(s) == s # << >> /\ \A i \in 1..Len(s) : s[i] \in Digits

\* C1: every migrated static page's front matter holds the line
\* type = "page" and not type = "post"; every migrated post's front matter
\* holds type = "post".
C1_TypeLine ==
    Migrating =>
        IF out[Len(out)].ev = "Migrated page"
        THEN /\ InSeq(TypeLine(page), LastFile.front)
             /\ ~InSeq(TypeLine(post), LastFile.front)
        ELSE InSeq(TypeLine(post), LastFile.front)

\* C2: a migrated post at <export>/<year>/<month>/<slug>/index.html is
\* written at posts/<year>/<month>/<slug>.html, year and month being the
\* 4th- and 3rd-from-last segments of the source path; posts/<slug>.html is
\* used only when the path carries no year/month.
C2_DatedOutputPath ==
    (Migrating /\ out[Len(out)].ev = "Migrated") =>
        /\ LastDst \in DOMAIN disk
        /\ IF IsYearSeg(Seg(LastSrc, 4)) /\ IsMonthSeg(Seg(LastSrc, 3))
           THEN LastDst = <<posts, Seg(LastSrc, 4), Seg(LastSrc, 3),
                            Seg(LastSrc, 2) \o <<DotHtml>>>>
           ELSE LastDst = <<posts, Seg(LastSrc, 2) \o <<DotHtml>>>>

ArgsValid == argc = 3 /\ wp_exists /\ hugo_exists

C3_Safety ==
    /\ ~ArgsValid =>
          /\ pc \in {"start", "exit"}
          /\ ~content_dir
          /\ disk = << >>
          /\ (pc = "exit" <=> exit_code = 1)
          /\ exit_code \in {-1, 1}
    /\ ArgsValid =>
          /\ pc # "exit"
          /\ exit_code \in {-1, 0}
          /\ (exit_code = 0 <=> pc = "done")
          /\ (pc = "done" =>
                out[Len(out)] = Line("Total migration complete", << >>, << >>,
                                     post_count + page_count))

\* C3: the process exits with code 1, with content/ not created and no file
\* written, whenever the argument count is wrong or either directory does
\* not exist; every other run reaches the summary and exits 0.
C3_ExitCodes ==
    /\ []C3_Safety
    /\ <>(IF ArgsValid THEN pc = "done" /\ exit_code = 0
                       ELSE pc = "exit" /\ exit_code = 1)

C3_Witness ==
    /\ pc = "exit" /\ exit_code = 1
    /\ argc = 3 /\ wp_exists /\ ~hugo_exists
    /\ ~content_dir /\ disk = << >>

OnlyWhitespace(e) ==
    \A i \in 1..Len(e.kids) : e.kids[i].k = "text" /\ Strip(e.kids[i].s) = << >>

\* C4: for every post candidate a file is written and the post counter goes
\* up by exactly one iff the document has an article, has an entry-content
\* div, and its extracted content is non-empty after trimming; otherwise,
\* including an entry-content div that holds only whitespace, no file is
\* created and the counter is unchanged.
C4_SkipOrCount ==
    [][(pc = "ProcessEachPost" /\ handed' # handed) =>
        LET html_file == CHOOSE h \in handed' \ handed : TRUE
            f == SubSeq(html_file, Len(wp_dir) + 1, Len(html_file))
            soup == tree'[f].soup
            entry == find(soup, "div", "entry-content")
            wrote == /\ Len(out') = Len(out) + 1
                     /\ out'[Len(out')].ev = "Migrated"
                     /\ out'[Len(out')].dst \in DOMAIN disk'
        IN  /\ wrote <=> /\ find(soup, "article", "") # NoElem
                         /\ entry # NoElem
                         /\ StripTok(extract_post_content(soup)) # << >>
            /\ (entry # NoElem /\ OnlyWhitespace(entry)) => ~wrote
            /\ wrote => post_count' = post_count + 1
            /\ ~wrote => (post_count' = post_count /\ disk' = disk)
            /\ pc' = "ProcessEachPost"
      ]_vars

\* the date the path gives: year and month of its /YYYY/MM/ pattern
ClaimedPathDate(path_parts) ==
    LET hits == {i \in 2..(Len(path_parts) - 2) :
                    IsYearSeg(path_parts[i]) /\ IsMonthSeg(path_parts[i + 1])}
    IN  IF hits = {} THEN DefaultDate
        ELSE path_parts[Min(hits)] \o <<"-">> \o path_parts[Min(hits) + 1]
             \o <<DateTail>>

\* C5: without a time.entry-date element the date is YYYY-MM-01T00:00:00+00:00
\* with the year and month of the path's /YYYY/MM/ pattern, and the literal
\* 2008-01-01T00:00:00+00:00 only when the path has no such pattern; with
\* the element the date is the same whatever the path.
C5_DateFromPath ==
    pc = "extracted" =>
        IF find(w_in.soup, "time", "entry-date") = NoElem
        THEN w_meta.date = ClaimedPathDate(w_in.path)
        ELSE \A h \in Files : MetadataResult[h][w_in.soup].date = w_meta.date

\* Reading a quoted value back: the characters between the quotes, a
\* backslash making the character after it literal.
RECURSIVE Unquote(_, _)
Unquote(rest, acc) ==
    IF rest = << >> THEN [ok |-> FALSE, val |-> << >>]
    ELSE IF Head(rest) = Quote THEN [ok |-> Tail(rest) = << >>, val |-> acc]
    ELSE IF Head(rest) = Backslash
         THEN IF Len(rest) >= 2
              THEN Unquote(Tail(Tail(rest)), Append(acc, rest[2]))
              ELSE [ok |-> FALSE, val |-> << >>]
    ELSE Unquote(Tail(rest), Append(acc, Head(rest)))

ReadField(line, key) ==
    IF Len(line) >= 2 /\ line[1] = key /\ line[2] = Quote
    THEN Unquote(SubSeq(line, 3, Len(line)), << >>)
    ELSE [ok |-> FALSE, val |-> << >>]

ReadBack(v) == [ok |-> TRUE, val |-> v]

\* C6: reading the front matter of the written file and un-escaping the
\* quoted title, date and slug gives back the values passed to the writer.
C6_RoundTrip ==
    pc = "written" =>
        /\ ReadField(w_file.front[2], "title = ") = ReadBack(w_meta.title)
        /\ ReadField(w_file.front[3], "date = ") = ReadBack(w_meta.date)
        /\ ReadField(w_file.front[4], "slug = ") = ReadBack(w_meta.slug)

\* C7: every file handed to post processing has a path
\* .../<year>/<month>/<segment>/index.html whose 4th-from-last segment is
\* exactly four digits and whose 3rd-from-last segment is all digits; the
\* static pages are never processed as posts.
C7_OnlyDatedPaths ==
    \A h \in handed :
        /\ Len(h) >= 4
        /\ Seg(h, 1) = index_html
        /\ IsYearSeg(Seg(h, 4))
        /\ AllDigits(Seg(h, 3))
        /\ ~InSeq(Seg(h, 2), <<about, projects, open_source>>)

\* C8: the body of every file written, post or static page, holds no script
\* or noscript element and not the tag of the content wrapper it came from.
C8_CleanBody ==
    Migrating =>
        LET wrapper == IF out[Len(out)].ev = "Migrated"
                       THEN find(LastSoup, "div", "entry-content")
                       ELSE PageContainer(LastSoup)
        IN  \A i \in 1..Len(LastFile.body) :
                /\ LastFile.body[i].tag \notin {"script", "noscript"}
                /\ LastFile.body[i] # OpenTok(wrapper)

Rank(p) ==
    CASE p = "start" -> 0
      [] p = "ScanPosts" -> 1
      [] p = "ProcessEachPost" -> 2
      [] p = "ScanPages" -> 3
      [] p = "ProcessEachPage" -> 4
      [] p = "ReportSummary" -> 5
      [] p = "done" -> 6
      [] OTHER -> 7

PageRank(name) ==
    CASE name = about -> 1
      [] name = projects -> 2
      [] name = open_source -> 3
      [] OTHER -> 0

IsPageLine(l) == l.ev \in {"Migrated page", "Warning page"}
IsPostLine(l) == l.ev \in {"Migrated", "Warning"}

C9_Order ==
    /\ (Rank(pc) >= 3 /\ Rank(pc) <= 6) => todo = {}
    /\ \A i, j \in 1..Len(out) :
          i < j =>
            /\ IsPageLine(out[i]) => ~IsPostLine(out[j])
            /\ (IsPageLine(out[i]) /\ IsPageLine(out[j])) =>
                  PageRank(Seg(out[i].src, 2)) < PageRank(Seg(out[j].src, 2))
            /\ out[i].ev # "Total migration complete"
    /\ (pc = "done" <=> (out # << >> /\ out[Len(out)].ev = "Total migration complete"))

C9_Step ==
    /\ Rank(pc') \in {Rank(pc), Rank(pc) + 1} \/ (pc = "start" /\ pc' = "exit")
    /\ Rank(pc') = Rank(pc) => pc \in {"ProcessEachPost", "ProcessEachPage"}
    /\ Rank(pc) >= 3 => handed' = handed
    /\ (pc = "ProcessEachPage" /\ pc' = pc) => page_idx' = page_idx + 1

\* C9: the driver runs ScanPosts, ProcessEachPost, ScanPages,
\* ProcessEachPage, ReportSummary once and in that order; every post
\* candidate is processed before any page, pages go in the order about,
\* projects, open-source, the summary is printed once, last, and every run
\* that starts scanning reaches ReportSummary.
C9_Pipeline ==
    /\ []C9_Order
    /\ [][C9_Step]_vars
    /\ (pc = "ScanPosts") ~> (pc = "ReportSummary")

C9_Witness ==
    /\ pc = "done"
    /\ \E i, j \in 1..Len(out) :
          /\ i < j
          /\ out[i].ev = "Migrated"
          /\ out[j].ev = "Migrated page"

PostFiles == {q \in DOMAIN disk : q[1] = posts}

\* C10: two migrated post sources that differ in year, month or slug are
\* written to different paths, so the number of post files on disk after the
\* run equals the reported post count.
C10_DistinctOutputs ==
    /\ \A i, j \in 1..Len(out) :
          (out[i].ev = "Migrated" /\ out[j].ev = "Migrated"
              /\ out[i].src # out[j].src) => out[i].dst # out[j].dst
    /\ pc = "done" => Cardinality(PostFiles) = post_count
====
